---- MODULE Spec2Model ----
(***************************************************************************)
(* Model of get_erddap_data (python_tools/script_versions/ERDDAP_Access.py) *)
(* One behaviour is one call.  The arguments are chosen in Init; every     *)
(* statement group of the function body is one action.  The client calls   *)
(* that contact the server (griddap_initialize, to_xarray, to_pandas)      *)
(* either complete or raise; a raise outside the try blocks of the two     *)
(* download loops leaves the function.  Building the client object and     *)
(* assigning its attributes touch memory only and complete.                *)
(***************************************************************************)
EXTENDS Integers, Sequences, FiniteSets, TLC

VARIABLES data_protocol, variables, constraints, timeout_maxretries,
          pc, e_constraints, e_variables, download_attempt, erddap_data,
          status, result, raisedAt, log

vars == <<data_protocol, variables, constraints, timeout_maxretries,
          pc, e_constraints, e_variables, download_attempt, erddap_data,
          status, result, raisedAt, log>>

args == <<data_protocol, variables, constraints, timeout_maxretries>>

----------------------------------------------------------------------------
(* Bounds of the model *)

\* largest timeout_maxretries tried
MaxRetries == 3
\* timeout_maxretries goes down to -NegRetries
NegRetries == 1

----------------------------------------------------------------------------
(* Values *)

\* Python's None for an optional argument / attribute, and a present value
None == <<>>
Some(x) == <<x>>

\* the protocol strings tried: the two recognised ones and two others
Protocols == {"griddap", "tabledap", "tabledap2", "GRIDDAP"}

\* the constraint dictionaries a caller passes (constraints=...)
ConstraintArgs ==
  { None,
    Some("time>=" :> "2022-01-01"),
    Some(("time>=" :> "2022-01-01") @@ ("depth<=" :> "10")) }

\* the variable lists a caller passes (variables=...)
VariableArgs == { None, Some(<<"sea_water_temperature">>) }

\* the constraint set and variable list griddap_initialize loads from the
\* dataset's metadata
DatasetConstraints == ("time>=" :> "min(time)") @@ ("longitude<=" :> "max(longitude)")
DatasetVariables == <<"sea_water_temperature", "sea_water_practical_salinity">>

\* values of the local erddap_data: not yet assigned, None, or the object
\* returned by the attempt-th call of to_xarray / to_pandas
Unbound == [kind |-> "unbound", attempt |-> 0]
NoData == [kind |-> "None", attempt |-> 0]
Data(kind, n) == [kind |-> kind, attempt |-> n]

----------------------------------------------------------------------------
(* Counting what a call has done, from its log of events *)

RECURSIVE Count(_, _)
Count(s, ev) ==
  IF s = <<>> THEN 0
  ELSE (IF Head(s) = ev THEN 1 ELSE 0) + Count(Tail(s), ev)

inits == Count(log, "griddap_initialize")
okFetches == Count(log, "fetch_ok")
failedFetches == Count(log, "fetch_raise")
fetches == okFetches + failedFetches
sleeps == Count(log, "sleep")
attemptDiags == Count(log, "attempt_diag")
finalDiags == Count(log, "final_diag")

----------------------------------------------------------------------------
(* Pieces of the function body *)

\* variant: the second test dropped, everything but "griddap" is tabledap
BranchTarget_elseTable(p) ==
  IF p = "griddap" THEN "g_init" ELSE "t_cons"

\* line 93 / 120 / 144: if ... elif ... else on the protocol string
BranchTarget(p) ==
  IF p = "griddap" THEN "g_init"
  ELSE IF p = "tabledap" THEN "t_cons"
  ELSE "invalid"

\* variant: the grid path assigns the supplied mapping like the table path
GridConstraintsUpdate_replace(old, new) == new

\* line 100: e.constraints.update(constraints)
GridConstraintsUpdate(old, new) == new @@ old

\* line 124: e.constraints = constraints
TableConstraintsAssign(old, new) == new

\* variant: the loop test written with <=
LoopCond_inclusive(attempt, maxretries) == attempt <= maxretries

\* line 107 / 130: while download_attempt < timeout_maxretries
LoopCond(attempt, maxretries) == attempt < maxretries

\* variant: a success only counts one attempt
AttemptAfterSuccess_increment(attempt, maxretries) == attempt + 1

\* line 110 / 133: download_attempt = timeout_maxretries
AttemptAfterSuccess(attempt, maxretries) == maxretries

\* variant: a failure ends the loop like a success does
AttemptAfterFailure_giveup(attempt, maxretries) == maxretries

\* line 115 / 138: download_attempt = download_attempt + 1
AttemptAfterFailure(attempt, maxretries) == attempt + 1

\* variant: no sleep once the budget is used up
ExceptEvents_noLastSleep(attempt, maxretries) ==
  IF attempt + 1 < maxretries
    THEN <<"attempt_diag", "sleep">>
    ELSE <<"attempt_diag">>

\* lines 111-117 / 134-140: what the except block does after the raise
ExceptEvents(attempt, maxretries) == <<"attempt_diag", "sleep">>

\* variant: a retry starts over from the configuration of the client
PcAfterFailure_reconfigure(loopPc) ==
  IF loopPc = "g_loop" THEN "g_init" ELSE "t_cons"

\* lines 107-117 / 130-140: where control goes after the except block
PcAfterFailure(loopPc) == loopPc

\* what a completed griddap_initialize may leave in the client: the
\* dataset's metadata, or (on a second call) the set already there
InitConstraints(cur) ==
  {Some(DatasetConstraints)} \cup (IF cur = None THEN {} ELSE {cur})
InitVariables(cur) ==
  {Some(DatasetVariables)} \cup (IF cur = None THEN {} ELSE {cur})

\* an exception leaves the function from the given line
Raise(line) ==
  /\ status' = "raised"
  /\ raisedAt' = line
  /\ pc' = "done"

----------------------------------------------------------------------------
(* The call *)

Init ==
  /\ data_protocol \in Protocols
  /\ variables \in VariableArgs
  /\ constraints \in ConstraintArgs
  /\ timeout_maxretries \in (0 - NegRetries)..MaxRetries
  /\ pc = "connect"
  /\ e_constraints = None
  /\ e_variables = None
  /\ download_attempt = 0
  /\ erddap_data = Unbound
  /\ status = "running"
  /\ result = Unbound
  /\ raisedAt = 0
  /\ log = <<>>

\* lines 80-90: e = ERDDAP(...); e.dataset_id = dataset; download_attempt = 0
\* What the new client holds as constraints and variables is the library's
\* choice: nothing, or a set of its own.
Connect ==
  /\ pc = "connect"
  /\ e_constraints' \in {None, Some(DatasetConstraints)}
  /\ e_variables' \in {None, Some(DatasetVariables)}
  /\ pc' = "branch"
  /\ UNCHANGED <<args, download_attempt, erddap_data, status, result,
                 raisedAt, log>>

\* lines 93, 120, 144: choose the branch
Branch ==
  /\ pc = "branch"
  /\ pc' = BranchTarget(data_protocol)
  /\ UNCHANGED <<args, e_constraints, e_variables, download_attempt,
                 erddap_data, status, result, raisedAt, log>>

\* the call e.griddap_initialize() made at position at, going on to next
Initialize(at, line, next) ==
  /\ pc = at
  /\ log' = Append(log, "griddap_initialize")
  /\ \/ /\ e_constraints' \in InitConstraints(e_constraints)
        /\ e_variables' \in InitVariables(e_variables)
        /\ pc' = next
        /\ UNCHANGED <<status, raisedAt>>
     \/ /\ Raise(line)
        /\ UNCHANGED <<e_constraints, e_variables>>
  /\ UNCHANGED <<args, download_attempt, erddap_data, result>>

\* line 96
GridInitialize == Initialize("g_init", 96, "g_cons")

\* lines 99-100: if constraints is not None: e.constraints.update(constraints)
GridConstraints ==
  /\ pc = "g_cons"
  /\ IF constraints # None
       THEN /\ e_constraints' =
                 Some(GridConstraintsUpdate(e_constraints[1], constraints[1]))
            /\ pc' = "g_reinit"
       ELSE /\ pc' = "g_vars"
            /\ UNCHANGED e_constraints
  /\ UNCHANGED <<args, e_variables, download_attempt, erddap_data,
                 status, result, raisedAt, log>>

\* line 101
GridReinitialize == Initialize("g_reinit", 101, "g_vars")

\* lines 104-105 / 127-128: if variables is not None: e.variables = variables
SetVariables(at, next) ==
  /\ pc = at
  /\ e_variables' = IF variables # None THEN variables ELSE e_variables
  /\ pc' = next
  /\ UNCHANGED <<args, e_constraints, download_attempt, erddap_data,
                 status, result, raisedAt, log>>

GridVariables == SetVariables("g_vars", "g_loop")

\* lines 123-124: if constraints is not None: e.constraints = constraints
TableConstraints ==
  /\ pc = "t_cons"
  /\ IF constraints # None
       THEN e_constraints' =
              Some(TableConstraintsAssign(e_constraints, constraints[1]))
       ELSE UNCHANGED e_constraints
  /\ pc' = "t_vars"
  /\ UNCHANGED <<args, e_variables, download_attempt, erddap_data,
                 status, result, raisedAt, log>>

TableVariables == SetVariables("t_vars", "t_loop")

\* one pass of the while loop in which the fetch returns (lines 108-110)
FetchOk(loopPc, kind) ==
  /\ pc = loopPc
  /\ LoopCond(download_attempt, timeout_maxretries)
  /\ log' = Append(log, "fetch_ok")
  /\ erddap_data' = Data(kind, fetches + 1)
  /\ download_attempt' = AttemptAfterSuccess(download_attempt, timeout_maxretries)
  /\ UNCHANGED <<args, pc, e_constraints, e_variables, status, result, raisedAt>>

\* one pass of the while loop in which the fetch raises (lines 108-117)
FetchFail(loopPc) ==
  /\ pc = loopPc
  /\ LoopCond(download_attempt, timeout_maxretries)
  /\ log' = Append(log, "fetch_raise")
               \o ExceptEvents(download_attempt, timeout_maxretries)
  /\ erddap_data' = NoData
  /\ download_attempt' = AttemptAfterFailure(download_attempt, timeout_maxretries)
  /\ pc' = PcAfterFailure(loopPc)
  /\ UNCHANGED <<args, e_constraints, e_variables, status, result, raisedAt>>

\* the while condition is false: fall through to line 151
LoopExit(loopPc) ==
  /\ pc = loopPc
  /\ ~LoopCond(download_attempt, timeout_maxretries)
  /\ pc' = "final"
  /\ UNCHANGED <<args, e_constraints, e_variables, download_attempt,
                 erddap_data, status, result, raisedAt, log>>

\* lines 107-117
GridFetchOk == FetchOk("g_loop", "xarray")
GridFetchFail == FetchFail("g_loop")
GridLoopExit == LoopExit("g_loop")

\* lines 130-140
TableFetchOk == FetchOk("t_loop", "dataframe")
TableFetchFail == FetchFail("t_loop")
TableLoopExit == LoopExit("t_loop")

\* lines 144-147: the else branch
InvalidProtocol ==
  /\ pc = "invalid"
  /\ log' = Append(log, "invalid_diag")
  /\ erddap_data' = NoData
  /\ pc' = "final"
  /\ UNCHANGED <<args, e_constraints, e_variables, download_attempt,
                 status, result, raisedAt>>

\* lines 151-154: reading a local that was never assigned raises
\* UnboundLocalError
Final ==
  /\ pc = "final"
  /\ IF erddap_data = Unbound
       THEN /\ Raise(151)
            /\ UNCHANGED <<result, log>>
       ELSE /\ log' = IF erddap_data = NoData
                        THEN Append(log, "final_diag") ELSE log
            /\ result' = erddap_data
            /\ status' = "returned"
            /\ pc' = "done"
            /\ UNCHANGED raisedAt
  /\ UNCHANGED <<args, e_constraints, e_variables, download_attempt, erddap_data>>

Next ==
  \/ Connect
  \/ Branch
  \/ GridInitialize
  \/ GridConstraints
  \/ GridReinitialize
  \/ GridVariables
  \/ GridFetchOk
  \/ GridFetchFail
  \/ GridLoopExit
  \/ TableConstraints
  \/ TableVariables
  \/ TableFetchOk
  \/ TableFetchFail
  \/ TableLoopExit
  \/ InvalidProtocol
  \/ Final

Spec == Init /\ [][Next]_vars

\* every call the function makes returns or raises, and the interpreter
\* keeps executing: no step that is possible is postponed forever
FairSpec == Spec /\ WF_vars(Next)

----------------------------------------------------------------------------
(* Vocabulary of the properties *)

ValidProtocol == data_protocol \in {"griddap", "tabledap"}

\* the configuration of the client completed: no griddap_initialize raised
Configured == raisedAt \notin {96, 101}

LoopPcs == {"g_loop", "t_loop"}

FetchEvents == {"fetch_ok", "fetch_raise"}

Max(a, b) == IF a > b THEN a ELSE b

\* between any two fetch attempts in the log there is a sleep
SleepBetweenAttempts ==
  \A i, j \in 1..Len(log) :
    (i < j /\ log[i] \in FetchEvents /\ log[j] \in FetchEvents)
      => \E k \in (i + 1)..(j - 1) : log[k] = "sleep"

\* the data object the function hands back on the given path
KindOf(p) == IF p = "griddap" THEN "xarray" ELSE "dataframe"

\* the grid step that handles supplied constraints merges them
GridMergeStep ==
  (pc = "g_cons" /\ constraints # None)
  => /\ DOMAIN e_constraints'[1] =
          DOMAIN e_constraints[1] \cup DOMAIN constraints[1]
     /\ \A k \in DOMAIN constraints[1] :
          e_constraints'[1][k] = constraints[1][k]
     /\ \A k \in DOMAIN e_constraints[1] \ DOMAIN constraints[1] :
          e_constraints'[1][k] = e_constraints[1][k]
     /\ pc' = "g_reinit"

\* the variables step sets the selection only when variables are supplied
VariablesStep ==
  pc \in {"g_vars", "t_vars"}
  => /\ e_variables' = (IF variables = None THEN e_variables ELSE variables)
     /\ e_constraints' = e_constraints

\* a step that configures the client
ConfigChange ==
  \/ e_constraints' # e_constraints
  \/ e_variables' # e_variables
  \/ inits' # inits

\* a griddap_initialize that raised ended the call with no attempt counted
InitFailureNotRetried ==
  /\ status = "raised" /\ pc = "done"
  /\ fetches = 0 /\ download_attempt = 0
  /\ inits = (IF raisedAt = 96 THEN 1 ELSE 2)

----------------------------------------------------------------------------
(* Properties *)

\* C1: get_erddap_data never raises to its caller: whatever the protocol,
\* the retry maximum and the failures of the client operations, the call
\* never ends by propagating an exception.
C1_NeverRaises == status # "raised"

\* C2: with a protocol that is neither "griddap" nor "tabledap" the call
\* makes no griddap_initialize, no fetch attempt and no sleep, never raises,
\* and ends by returning None, whatever the variables, constraints and
\* retry maximum.
C2_InvalidProtocolNoNetwork ==
  ~ValidProtocol =>
    /\ inits = 0 /\ fetches = 0 /\ sleeps = 0
    /\ pc = "done" => (status = "returned" /\ result = NoData)

C2_Witness ==
  /\ data_protocol = "tabledap2"
  /\ constraints # None /\ variables # None
  /\ timeout_maxretries = MaxRetries
  /\ status = "returned" /\ result = NoData

\* C3: valid protocol, retry maximum N >= 1 and every fetch raising: the
\* call makes exactly N fetch attempts, with a sleep between any two of
\* them, and returns None.
C3_AlwaysFailingFetch ==
  (pc = "done" /\ ValidProtocol /\ Configured
     /\ timeout_maxretries >= 1 /\ okFetches = 0)
  => /\ fetches = timeout_maxretries
     /\ SleepBetweenAttempts
     /\ status = "returned"
     /\ result = NoData

C3_Witness ==
  /\ pc = "done" /\ ValidProtocol
  /\ timeout_maxretries = 3 /\ okFetches = 0 /\ failedFetches = 3
  /\ result = NoData

\* C4: valid protocol and a fetch that first succeeds on attempt k after
\* k-1 failures, 1 <= k <= N: nothing happens in the loop after the success
\* (no further attempt, no sleep), so the call makes exactly k attempts, and
\* it returns the object of that k-th attempt, not None.
C4_StopsAtFirstSuccess ==
  (ValidProtocol /\ okFetches >= 1)
  => /\ okFetches = 1
     /\ log[Len(log)] = "fetch_ok"
     /\ fetches = failedFetches + 1
     /\ fetches \in 1..timeout_maxretries
     /\ erddap_data = Data(KindOf(data_protocol), fetches)
     /\ pc = "done" => (status = "returned" /\ result = erddap_data)

C4_Witness ==
  /\ pc = "done" /\ status = "returned"
  /\ timeout_maxretries = 3
  /\ failedFetches = 1 /\ okFetches = 1
  /\ result = Data("xarray", 2)

\* C5: the final diagnostic is printed exactly once in every call that ends
\* with the retries exhausted or with an invalid protocol, and that call
\* returns None; it is not printed in a call in which a fetch succeeded.
C5_FinalDiagnostic ==
  pc = "done" =>
    /\ ((ValidProtocol /\ Configured /\ okFetches = 0) \/ ~ValidProtocol)
         => (finalDiags = 1 /\ status = "returned" /\ result = NoData)
    /\ okFetches >= 1 => finalDiags = 0

\* C6: valid protocol and retry maximum <= 0: the call makes no fetch
\* attempt and returns None with the final diagnostic.
C6_NoBudget ==
  (pc = "done" /\ ValidProtocol /\ Configured /\ timeout_maxretries <= 0)
  => /\ fetches = 0
     /\ status = "returned"
     /\ result = NoData
     /\ finalDiags = 1

\* C7: the retry loop is a bounded counter with two exits: every call
\* terminates, download_attempt never decreases and never exceeds
\* max(0, N), and the loop is left only after a success or once the failed
\* attempts have reached N.
C7_BoundedCounter ==
  /\ <>(pc = "done")
  /\ [](download_attempt >= 0 /\ download_attempt <= Max(0, timeout_maxretries))
  /\ [][download_attempt' >= download_attempt]_vars
  /\ [][(pc \in LoopPcs /\ pc' \notin LoopPcs)
         => (okFetches >= 1 \/ failedFetches >= timeout_maxretries)]_vars

C7_Witness ==
  /\ pc = "final" /\ ValidProtocol
  /\ timeout_maxretries = 2 /\ download_attempt = 2
  /\ failedFetches = 2 /\ okFetches = 0

\* C8: the step that handles the constraints merges on the grid path (keys
\* the caller does not name are kept, named keys are overwritten) and is
\* followed by a second griddap_initialize; on the table path it makes the
\* client's constraint set exactly the supplied mapping.  With constraints
\* omitted that step leaves the constraint set alone on both paths, and with
\* variables omitted the variables step leaves the selection alone.
C8_ConstraintHandling ==
  /\ [][GridMergeStep]_vars
  /\ [][pc = "g_reinit" => inits' = inits + 1]_vars
  /\ [][(pc = "t_cons" /\ constraints # None) => e_constraints' = constraints]_vars
  /\ [][(pc \in {"g_cons", "t_cons"} /\ constraints = None)
         => e_constraints' = e_constraints]_vars
  /\ [][VariablesStep]_vars

C8_Witness ==
  /\ pc = "g_reinit"
  /\ DOMAIN constraints[1] = {"time>="}
  /\ DOMAIN e_constraints[1] = {"time>=", "longitude<="}
  /\ e_constraints[1]["time>="] = "2022-01-01"
  /\ e_constraints[1]["longitude<="] = "max(longitude)"

\* C9: every failed fetch attempt is directly followed by its diagnostic and
\* then a sleep, so a call sleeps once per failed attempt, also after the
\* last one when no retry follows: N sleeps for N failures.
C9_SleepPerFailure ==
  /\ sleeps = failedFetches
  /\ attemptDiags = failedFetches
  /\ \A i \in 1..Len(log) :
       log[i] = "fetch_raise"
         => /\ i + 2 <= Len(log)
            /\ log[i + 1] = "attempt_diag"
            /\ log[i + 2] = "sleep"

C9_Witness ==
  /\ pc = "done" /\ status = "returned" /\ result = NoData
  /\ timeout_maxretries = 2
  /\ failedFetches = 2 /\ sleeps = 2
  /\ log[Len(log) - 1] = "sleep"

\* C10: the client is configured once, before the first fetch attempt, and
\* never again on a retry: a configured grid call has run griddap_initialize
\* once without constraints and twice with them, a table call never runs
\* it, and no fetch attempt is preceded by a change of the constraints or
\* variables after an earlier attempt.  A griddap_initialize that raises is
\* not retried and counts no attempt.
C10_ConfiguredOnce ==
  /\ [][ConfigChange => fetches' = 0]_vars
  /\ []((data_protocol = "griddap" /\ Configured
            /\ pc \in {"g_loop", "final", "done"})
          => inits = (IF constraints # None THEN 2 ELSE 1))
  /\ [](data_protocol # "griddap" => inits = 0)
  /\ [](~Configured => InitFailureNotRetried)

C10_Witness ==
  /\ pc = "done" /\ data_protocol = "griddap"
  /\ constraints # None /\ inits = 2
  /\ failedFetches = 2 /\ okFetches = 1

====
